---- MODULE Spec2Model ----
(***************************************************************************)
(* Model of Paginate (src/MongoDBPagination.ts): one aggregation pipeline  *)
(* built from the caller's query stages, an optional `_id > lastID` match, *)
(* a $group that pushes every document into one array and counts them, a   *)
(* $project that slices the array to limitDoc, and a $sort of the grouped  *)
(* result documents; then lastId is read from the last element of data.    *)
(*                                                                         *)
(* Paginate is async: an invocation runs to its await (Invoke), the store   *)
(* reads the documents and answers (Serve), and the invocation resumes and *)
(* returns or throws (Return).  Writes by other clients and the steps of   *)
(* another caller's invocation may come between any two of these.          *)
(*                                                                         *)
(* A document is represented by its _id, a positive integer.  The falsy    *)
(* values null and undefined are both represented by Absent.               *)
(***************************************************************************)
EXTENDS Integers, Sequences, FiniteSets

\* ---- bounds -------------------------------------------------------------
MaxId == 2
MaxLimit == 2
MaxWrites == 1

Ids == 1..MaxId
Limits == 1..MaxLimit

\* ---- values -------------------------------------------------------------
\* null (default of lastID) and undefined (data.at(-1)?._id of an empty array)
Absent == 0
NoError == "none"
\* the rejection of the driver's aggregate().toArray()
AggErrors == {"MongoServerError"}

Range(s) == {s[i] : i \in 1..Len(s)}
NoDup(s) == \A i, j \in 1..Len(s) : i # j => s[i] # s[j]
Min2(a, b) == IF a < b THEN a ELSE b
SetMax(S) == CHOOSE x \in S : \A y \in S : y <= x

\* every sequence of pairwise distinct identifiers: the documents in the
\* order the caller's query stages deliver them
DocSeqs == {s \in UNION {[1..n -> Ids] : n \in 0..MaxId} : NoDup(s)}

\* ---- the pipeline stages ------------------------------------------------
\* `if (lastID)`: JavaScript truthiness of the cursor argument
Truthy(x) == x # Absent

\* { $match: { _id: { $gt: lastID } } }
MatchGt(s, c) == SelectSeq(s, LAMBDA d : d > c)

\* { $group: { _id: {}, data: { $push: '$$ROOT' }, total: { $sum: 1 } } }
\* one group per distinct key: no input document, no group
GroupCountAll(s) == IF s = <<>> THEN <<>> ELSE << [data |-> s, total |-> Len(s) + 1] >>
Group(s) == IF s = <<>> THEN <<>> ELSE << [data |-> s, total |-> Len(s)] >>

\* { $slice: ['$data', n] } for n >= 1: up to the first n elements
SliceOneMore(s, n) == SubSeq(s, 1, Min2(n + 1, Len(s)))
Slice(s, n) == SubSeq(s, 1, Min2(n, Len(s)))

\* { $project: { _id: 0, total: 1, data: { $slice: ['$data', limitDoc] } } }
Project(rs, n) == [i \in 1..Len(rs) |-> [data |-> Slice(rs[i].data, n), total |-> rs[i].total]]

\* { $sort: { 'data._id': -1 } }: orders the RESULT documents; the key of an
\* array-valued path in a descending sort is the largest value in the array
SortKey(r) == IF r.data = <<>> THEN Absent ELSE SetMax(Range(r.data))
RECURSIVE InsertDesc(_, _)
InsertDesc(r, rs) ==
    IF rs = <<>> THEN << r >>
    ELSE IF SortKey(r) > SortKey(Head(rs)) THEN << r >> \o rs
    ELSE << Head(rs) >> \o InsertDesc(r, Tail(rs))
RECURSIVE SortStage(_)
SortStage(rs) == IF rs = <<>> THEN <<>> ELSE InsertDesc(Head(rs), SortStage(Tail(rs)))

\* collection.aggregate([...]).toArray() of the two branches
Aggregate(ds, n, c) ==
    IF Truthy(c)
    THEN SortStage(Project(Group(MatchGt(ds, c)), n))
    ELSE SortStage(Project(Group(ds), n))

\* data.at(-1)?._id
AtFirst(s) == IF s = <<>> THEN Absent ELSE s[1]
AtLast(s) == IF s = <<>> THEN Absent ELSE s[Len(s)]

Thrown(e) == [kind |-> "throw", data |-> <<>>, total |-> 0, lastId |-> Absent,
              error |-> e]
Returned(r) == [kind |-> "ok", data |-> r.data, total |-> r.total,
                lastId |-> AtLast(r.data), error |-> NoError]

\* a variant that swallows the rejection and answers with an empty page
SettleSwallow(rs, f) ==
    IF f # NoError
    THEN [kind |-> "ok", data |-> <<>>, total |-> 0, lastId |-> Absent, error |-> NoError]
    ELSE IF rs = <<>> THEN Thrown("TypeError")
    ELSE Returned(rs[1])

\* Paginate after its await: a rejection f of the aggregate propagates;
\* otherwise result[0].lastId = ... throws a TypeError when result is empty,
\* and else result[0] is returned
Settle(rs, f) ==
    IF f # NoError THEN Thrown(f)
    ELSE IF rs = <<>> THEN Thrown("TypeError")
    ELSE Returned(rs[1])

\* the outcome of a whole call whose aggregate is evaluated on ds
Paginate(ds, n, c, f) == Settle(Aggregate(ds, n, c), f)

\* ---- state --------------------------------------------------------------
\* the callers whose invocations of Paginate may overlap
Callers == {"A", "B"}

VARIABLES
    docs,      \* documents the query stages deliver now, in delivery order
    writes,    \* number of writes by other clients so far
    call,      \* per caller: its latest invocation of Paginate, where it stands
    \* bookkeeping of the cursor chain formed by the pager's successive calls
    chain,     \* "none", "active" (cursor-chained so far) or "broken"
    link,      \* place of the pager's latest call: "first", "next" or "other"
    pending,   \* identifiers written since the store last read for the pager
    gap,       \* identifiers written between the chain's two latest reads
    prevDocs,  \* documents the store read for the chain's previous call
    dirty,     \* a write came between the chain's first read and its latest
    acc        \* concatenation of the data of the chain's pages

book == << chain, link, pending, gap, prevDocs, dirty, acc >>
vars == << docs, writes, call, chain, link, pending, gap, prevDocs, dirty, acc >>

NoResult == [kind |-> "none", data |-> <<>>, total |-> 0, lastId |-> Absent,
             error |-> NoError]

\* a caller that has not invoked Paginate yet.  Of an invocation: pc is where
\* it stands, limitDoc and lastID its arguments, aggCalls the aggregate calls
\* it issued, fail and resp how the aggregate ended, docsRead the documents
\* the store read for it, result what it returned or threw.
Idle == [pc |-> "idle", limitDoc |-> 10, lastID |-> Absent, aggCalls |-> 0,
         fail |-> NoError, resp |-> <<>>, docsRead |-> <<>>, result |-> NoResult]

Init ==
    /\ docs \in DocSeqs
    /\ writes = 0
    /\ call = [k \in Callers |-> Idle]
    /\ chain = "none"
    /\ link = "other"
    /\ pending = {}
    /\ gap = {}
    /\ prevDocs = <<>>
    /\ dirty = FALSE
    /\ acc = <<>>

\* Paginate(collection, n, c, query) up to its await: the arguments are bound,
\* the branch is taken, one aggregate is issued and control goes back to the
\* event loop
InvokeStep(k, n, c) ==
    /\ call[k].pc \in {"idle", "done"}
    /\ call' = [call EXCEPT ![k] = [Idle EXCEPT !.pc = "issued", !.limitDoc = n,
                                                !.lastID = c, !.aggCalls = 1]]
    /\ UNCHANGED << docs, writes >>

\* the store answers the aggregate of caller k: it evaluates the pipeline on
\* the documents as they are now, or the call fails with f
ServeStep(k, f) ==
    /\ call[k].pc = "issued"
    /\ call' = IF f = NoError
               THEN [call EXCEPT ![k].pc = "answered",
                                 ![k].resp = Aggregate(docs, call[k].limitDoc, call[k].lastID),
                                 ![k].docsRead = docs]
               ELSE [call EXCEPT ![k].pc = "answered", ![k].fail = f]
    /\ UNCHANGED << docs, writes >>

\* Paginate of caller k resumes after its await: result[0].lastId is assigned
\* and result[0] returned, or the call throws
ReturnStep(k) ==
    /\ call[k].pc = "answered"
    /\ call' = [call EXCEPT ![k].pc = "done",
                            ![k].result = Settle(call[k].resp, call[k].fail)]
    /\ UNCHANGED << docs, writes >>

\* another client inserts a document; it shows up at position p of the
\* delivery order
InsertStep(d, p) ==
    /\ writes < MaxWrites
    /\ d \notin Range(docs)
    /\ p \in 0..Len(docs)
    /\ docs' = SubSeq(docs, 1, p) \o << d >> \o SubSeq(docs, p + 1, Len(docs))
    /\ writes' = writes + 1
    /\ UNCHANGED call

\* another client deletes a document
DeleteStep(d) ==
    /\ writes < MaxWrites
    /\ d \in Range(docs)
    /\ docs' = SelectSeq(docs, LAMBDA x : x # d)
    /\ writes' = writes + 1
    /\ UNCHANGED call

Invoke(k, n, c) == InvokeStep(k, n, c) /\ UNCHANGED book
Serve(k, f) == ServeStep(k, f) /\ UNCHANGED book
Return(k) == ReturnStep(k) /\ UNCHANGED book
InsertDoc(d, p) == InsertStep(d, p) /\ UNCHANGED book
DeleteDoc(d) == DeleteStep(d) /\ UNCHANGED book

Next ==
    \/ \E k \in Callers, n \in Limits, c \in {Absent} \cup Ids : Invoke(k, n, c)
    \/ \E k \in Callers, f \in {NoError} \cup AggErrors : Serve(k, f)
    \/ \E k \in Callers : Return(k)
    \/ \E d \in Ids, p \in 0..MaxId : InsertDoc(d, p)
    \/ \E d \in Ids : DeleteDoc(d)

Spec == Init /\ [][Next]_vars

\* ---- the same program, with the pager's cursor chain followed -------------
\* the caller whose successive calls are followed as a cursor chain
Pager == "A"

\* the invocation continues the chain: the pager's previous call returned a
\* page and its lastId is passed as the cursor
Continues(c) ==
    /\ chain = "active"
    /\ call[Pager].pc = "done"
    /\ call[Pager].result.kind = "ok"
    /\ Truthy(c)
    /\ c = call[Pager].result.lastId

ChainInvoke(k, n, c) ==
    /\ InvokeStep(k, n, c)
    /\ IF k = Pager
       THEN /\ link' = IF ~Truthy(c) THEN "first"
                       ELSE IF Continues(c) THEN "next" ELSE "other"
            /\ prevDocs' = IF Continues(c) THEN call[Pager].docsRead ELSE <<>>
            /\ gap' = {}
       ELSE UNCHANGED << link, prevDocs, gap >>
    /\ UNCHANGED << chain, pending, dirty, acc >>

ChainServe(k, f) ==
    /\ ServeStep(k, f)
    /\ IF k = Pager /\ f = NoError
       THEN gap' = pending /\ pending' = {}
       ELSE UNCHANGED << gap, pending >>
    /\ UNCHANGED << chain, link, prevDocs, dirty, acc >>

ChainReturn(k) ==
    /\ ReturnStep(k)
    /\ IF k # Pager
       THEN UNCHANGED << chain, dirty, acc >>
       ELSE IF link = "first" /\ call[k].fail = NoError
       THEN /\ chain' = "active"
            /\ dirty' = FALSE
            /\ acc' = call'[k].result.data
       ELSE IF link = "next" /\ call[k].fail = NoError
       THEN /\ chain' = "active"
            /\ dirty' = (dirty \/ gap # {})
            /\ acc' = acc \o call'[k].result.data
       ELSE /\ chain' = "broken"
            /\ dirty' = FALSE
            /\ acc' = <<>>
    /\ UNCHANGED << link, pending, gap, prevDocs >>

ChainInsertDoc(d, p) ==
    /\ InsertStep(d, p)
    /\ pending' = pending \cup {d}
    /\ UNCHANGED << chain, link, gap, prevDocs, dirty, acc >>

ChainDeleteDoc(d) ==
    /\ DeleteStep(d)
    /\ pending' = pending \cup {d}
    /\ UNCHANGED << chain, link, gap, prevDocs, dirty, acc >>

NextChain ==
    \/ \E k \in Callers, n \in Limits, c \in {Absent} \cup Ids : ChainInvoke(k, n, c)
    \/ \E k \in Callers, f \in {NoError} \cup AggErrors : ChainServe(k, f)
    \/ \E k \in Callers : ChainReturn(k)
    \/ \E d \in Ids, p \in 0..MaxId : ChainInsertDoc(d, p)
    \/ \E d \in Ids : ChainDeleteDoc(d)

SpecChain == Init /\ [][NextChain]_vars

TypeOK ==
    /\ docs \in DocSeqs
    /\ chain \in {"none", "active", "broken"}
    /\ \A k \in Callers :
           /\ call[k].pc \in {"idle", "issued", "answered", "done"}
           /\ call[k].result.kind \in {"none", "ok", "throw"}

\* ---- the claims ---------------------------------------------------------
IsPrefix(s, t) == Len(s) <= Len(t) /\ SubSeq(t, 1, Len(s)) = s
Ascending(s) == \A i, j \in 1..Len(s) : i < j => s[i] < s[j]
Descending(s) == \A i, j \in 1..Len(s) : i < j => s[i] > s[j]

\* caller k's call has returned or thrown
Done(k) == call[k].pc = "done"
\* the documents the store read for k's call that lie beyond its cursor (all
\* of them when no cursor was given), as a set and in delivery order
Remaining(k) ==
    {d \in Range(call[k].docsRead) : ~Truthy(call[k].lastID) \/ d > call[k].lastID}
RemainingSeq(k) == SelectSeq(call[k].docsRead, LAMBDA d : d \in Remaining(k))
\* the pager's latest call has ended and belongs to its chain
InChain == chain = "active" /\ Done(Pager)
\* what the chain had returned before its latest page
ReturnedBefore == Range(SubSeq(acc, 1, Len(acc) - Len(call[Pager].result.data)))

\* C1: over an unchanged, non-empty set delivered in identifier order, a
\* cursor chain returns a page at every call, the concatenated pages follow
\* the order without duplicate or omission, and the chain ends with an empty
\* page whose lastId is absent.
C1_ChainReproducesAll ==
    (InChain /\ ~dirty /\ call[Pager].docsRead # <<>>
     /\ (Ascending(call[Pager].docsRead) \/ Descending(call[Pager].docsRead)))
        => /\ call[Pager].result.kind = "ok"
           /\ IsPrefix(acc, call[Pager].docsRead)
           /\ (call[Pager].result.data = <<>>
                  => acc = call[Pager].docsRead /\ call[Pager].result.lastId = Absent)

\* C2: in a cursor chain over an unchanged data set every page's total is the
\* size of the prefiltered set, with or without a cursor.
C2_TotalIsPrefilteredSize ==
    (InChain /\ ~dirty /\ call[Pager].result.kind = "ok")
        => call[Pager].result.total = Len(call[Pager].docsRead)

\* C3: when no document is left to page over, Paginate returns the page
\* {data: [], total: 0, lastId: absent} and does not fail.
C3_EmptyPageReturned ==
    \A k \in Callers :
        (Done(k) /\ call[k].fail = NoError /\ Remaining(k) = {})
            => /\ call[k].result.kind = "ok"
               /\ call[k].result.data = <<>>
               /\ call[k].result.total = 0
               /\ call[k].result.lastId = Absent

\* C4: with a cursor, every returned document lies strictly beyond the cursor
\* in the default, descending direction: its identifier is less than the cursor.
C4_DataBeyondCursorDesc ==
    \A k \in Callers :
        (call[k].result.kind = "ok" /\ Truthy(call[k].lastID))
            => \A i \in 1..Len(call[k].result.data) : call[k].result.data[i] < call[k].lastID

\* C5: data is in descending identifier order whatever the delivery order,
\* and is the first limitDoc documents of that ordering.
C5_DataSortedDesc ==
    \A k \in Callers :
        call[k].result.kind = "ok"
            => /\ Descending(call[k].result.data)
               /\ \A d \in Remaining(k) : d \in Range(call[k].result.data)
                      \/ (Len(call[k].result.data) = call[k].limitDoc
                          /\ \A e \in Range(call[k].result.data) : e > d)

\* C6: a returned page has at most limitDoc documents and its lastId is the
\* identifier of the last element of data, absent exactly when data is empty.
C6_PageShape ==
    \A k \in Callers :
        (call[k].result.kind = "ok" /\ call[k].limitDoc >= 1)
            => /\ Len(call[k].result.data) <= call[k].limitDoc
               /\ (call[k].result.data # <<>>
                      => call[k].result.lastId = call[k].result.data[Len(call[k].result.data)])
               /\ (call[k].result.lastId = Absent <=> call[k].result.data = <<>>)
C6_Witness ==
    \E k \in Callers :
        /\ call[k].result.kind = "ok"
        /\ Len(call[k].result.data) = call[k].limitDoc
        /\ Cardinality(Remaining(k)) > call[k].limitDoc
        /\ call[k].docsRead # docs

\* C7: when the only writes between two consecutive calls of a chain are at
\* identifiers at or before the cursor, the next call ends as it would have
\* without them and returns no document the chain already returned.
C7_StableUnderWrites ==
    (InChain /\ link = "next" /\ gap # {}
     /\ \A w \in gap : w <= call[Pager].lastID)
        => /\ call[Pager].result
                  = Paginate(prevDocs, call[Pager].limitDoc,
                             call[Pager].lastID, NoError)
           /\ Range(call[Pager].result.data) \cap ReturnedBefore = {}

\* C8: when limitDoc is at least the number of remaining documents and one
\* remains, data holds all of them and lastId is the last one's identifier.
C8_LastPageComplete ==
    \A k \in Callers :
        (Done(k) /\ call[k].fail = NoError /\ Remaining(k) # {}
         /\ call[k].limitDoc >= Cardinality(Remaining(k)))
            => /\ call[k].result.kind = "ok"
               /\ Range(call[k].result.data) = Remaining(k)
               /\ Len(call[k].result.data) = Cardinality(Remaining(k))
               /\ call[k].result.lastId = call[k].result.data[Len(call[k].result.data)]
C8_Witness ==
    \E k \in Callers :
        /\ call[k].result.kind = "ok"
        /\ call[k].limitDoc >= Cardinality(Remaining(k))
        /\ Len(call[k].result.data) >= 2
        /\ call[k].docsRead # docs

\* C9: a failure of the aggregation is the failure of Paginate, unchanged:
\* one aggregate call per invocation, no retry, no catch, no partial page.
C9_FailurePropagates ==
    \A k \in Callers :
        /\ call[k].pc # "idle" => call[k].aggCalls = 1
        /\ (Done(k) /\ call[k].fail # NoError)
               => /\ call[k].result.kind = "throw"
                  /\ call[k].result.error = call[k].fail
                  /\ call[k].result.data = <<>>
C9_Witness ==
    \E k, j \in Callers :
        /\ call[k].fail = "MongoServerError"
        /\ call[k].result.kind = "throw"
        /\ call[k].result.error = "MongoServerError"
        /\ docs # <<>>
        /\ call[j].result.kind = "ok"

\* C10: a returned page's total is the number of documents that reached
\* $group (those past the cursor match when a cursor is given), it is at
\* least 1, and data is the first min(limitDoc, total) of them in the order
\* they arrived.
C10_TotalCountsGrouped ==
    \A k \in Callers :
        (call[k].result.kind = "ok" /\ call[k].limitDoc >= 1)
            => /\ call[k].result.total = Cardinality(Remaining(k))
               /\ call[k].result.total >= 1
               /\ Len(call[k].result.data) = Min2(call[k].limitDoc, call[k].result.total)
               /\ IsPrefix(call[k].result.data, RemainingSeq(k))
C10_Witness ==
    \E k \in Callers :
        /\ call[k].result.kind = "ok"
        /\ Truthy(call[k].lastID)
        /\ call[k].result.total < Len(call[k].docsRead)
        /\ call[k].docsRead # docs
====
